---- MODULE Spec2Model ----
(***************************************************************************)
(* A model of utils/data_utils.py: the k-mer transform return_kmer, the    *)
(* validator is_dna_sequence, the dataset adapter HF_dataset and the       *)
(* generator val_dataset_generator.                                        *)
(*                                                                         *)
(* Python values are modelled as follows.  A str is a sequence of          *)
(* one-character strings ("ATC" is <<"A","T","C">>).  A value handed to a  *)
(* function that may or may not be a str is tagged with its Python type:   *)
(* [type |-> "str", v |-> <<...>>] or [type |-> "float", v |-> <<>>] (the   *)
(* NaN pandas stores for an empty CSV cell).  The outcome of a call is     *)
(* [kind |-> "ok", val |-> v] or [kind |-> "raise", exc |-> name].         *)
(***************************************************************************)
EXTENDS Integers, Sequences, FiniteSets, TLC

VARIABLES
    \* return_kmer: its arguments and its outcome
    seq, K, kmer_seq,
    \* is_dna_sequence: its argument and its outcome
    sequence, is_dna,
    \* HF_dataset: the object, the arguments it was constructed from, the last
    \* call made on it and that call's outcome
    self, ctor, hf_call, hf_ret,
    \* val_dataset_generator.  The caller's side: the directory, the number of
    \* the current invocation, its kmer_size argument, the number of next()
    \* calls that ran the generator, and the outcome of the last next().
    dir, invocation, kmer_size, requests, resp,
    \* The generator object: where it stands, and its locals (files is the
    \* list os.listdir returned, fi the number of the file the loop is at,
    \* row the number of rows the inner loop has consumed).
    pc, files, fi, df_test, val_kmers, labels_val, row, val_encodings,
    \* What this generator object has done so far: the datasets it yielded,
    \* the tokenizer calls it made (the file it was at, the batch passed and
    \* whether the tokenizer returned), the files it read.
    yielded, tok_calls, reads

kmer_vars == <<seq, K, kmer_seq>>
dna_vars  == <<sequence, is_dna>>
hf_vars   == <<self, ctor, hf_call, hf_ret>>
caller_vars == <<dir, invocation, kmer_size, requests, resp>>
local_vars  == <<pc, files, fi, df_test, val_kmers, labels_val, row, val_encodings>>
log_vars    == <<yielded, tok_calls, reads>>
gen_vars  == <<caller_vars, local_vars, log_vars>>
pure_vars == <<kmer_vars, dna_vars, hf_vars>>
vars      == <<kmer_vars, dna_vars, hf_vars, gen_vars>>

\* ------------------------------------------------------------ bounds
MaxSeqLen == 3
MaxK == 4
MaxDnaLen == 2
MaxRows == 2
MaxFiles == 2
MaxKmerSize == 3
MaxlLen == 4
MaxInvocations == 2

\* ------------------------------------------------------------ Python
Min(a, b) == IF a < b THEN a ELSE b
Max(a, b) == IF a > b THEN a ELSE b

Ok(v)      == [kind |-> "ok", val |-> v]
Raise(e)   == [kind |-> "raise", exc |-> e]
NotCalled  == [kind |-> "none"]

PyStr(s) == [type |-> "str", v |-> s]
PyNaN    == [type |-> "float", v |-> <<>>]

\* The sequences over S of length at most n.
SeqsUpTo(S, n) == UNION {[1..m -> S] : m \in 0..n}

\* A slice bound i of a sequence of length n, as Python normalises it.
PyNorm(i, n) == IF i < 0 THEN Max(i + n, 0) ELSE Min(i, n)

\* s[a:b]
Slice(s, a, b) == SubSeq(s, PyNorm(a, Len(s)) + 1, PyNorm(b, Len(s)))

\* sep.join(list)
RECURSIVE Join(_, _)
Join(sep, list) ==
    IF list = <<>> THEN <<>>
    ELSE IF Len(list) = 1 THEN list[1]
    ELSE list[1] \o sep \o Join(sep, Tail(list))

\* ------------------------------------------------------------ return_kmer
\* Mutants of KmerRange: the window count off by one; a loop that runs its
\* body before it tests.
KmerRange_short(s, k) == Max(Len(s) - k, 0)
KmerRange_dowhile(s, k) == Max(Len(s) - k + 1, 1)

\* len(range(len(seq) - K + 1)): the number of windows.
KmerRange(s, k) == Max(Len(s) - k + 1, 0)

\* kmer_list after the loop: seq[x : x + K] for x in range(...).
kmer_list(s, k) == [x1 \in 1..KmerRange(s, k) |-> Slice(s, x1 - 1, x1 - 1 + k)]

\* return_kmer(seq, K): len() of a float raises TypeError.
return_kmer(sq, k) ==
    IF sq.type # "str" THEN Raise("TypeError")
    ELSE Ok(Join(<<" ">>, kmer_list(sq.v, k)))

KmerAlphabet == {"A", "C", "G", "T", "N"}

KmerIdle == seq = PyStr(<<>>) /\ K = 1 /\ kmer_seq = NotCalled

InitKmerArgs ==
    /\ seq \in {PyStr(s) : s \in SeqsUpTo(KmerAlphabet, MaxSeqLen)} \cup {PyNaN}
    /\ K \in 1..MaxK
    /\ kmer_seq = NotCalled

CallReturnKmer ==
    /\ kmer_seq = NotCalled
    /\ kmer_seq' = return_kmer(seq, K)
    /\ UNCHANGED <<seq, K>>

\* ------------------------------------------------------------ is_dna_sequence
\* The characters the model draws from: the eight DNA letters, two other
\* letters, a character that is no letter, and U+1E97 (t with diaeresis),
\* whose upper case is the two characters T, U+0308.
DnaAlphabet == {"A", "C", "G", "T", "a", "c", "g", "t", "N", "n", "-", "u1E97"}

\* str.upper() of one character: a sequence of characters.
UpperChar(c) ==
    CASE c = "a" -> <<"A">>
      [] c = "c" -> <<"C">>
      [] c = "g" -> <<"G">>
      [] c = "t" -> <<"T">>
      [] c = "n" -> <<"N">>
      [] c = "u1E97" -> <<"T", "u0308">>
      [] OTHER -> <<c>>

\* sequence.upper()
RECURSIVE Upper(_)
Upper(s) == IF s = <<>> THEN <<>> ELSE UpperChar(Head(s)) \o Upper(Tail(s))

valid_bases == {"A", "C", "G", "T"}

\* Mutant of Bases: the sequence is tested as given, not upper-cased.
Bases_noupper(s) == s

\* The characters the generator expression iterates over.
Bases(s) == Upper(s)

\* all(base in valid_bases for base in sequence.upper())
is_dna_sequence(s) == \A i \in 1..Len(Bases(s)) : Bases(s)[i] \in valid_bases

DnaIdle == sequence = <<>> /\ is_dna = NotCalled

InitDnaArgs ==
    /\ sequence \in SeqsUpTo(DnaAlphabet, MaxDnaLen)
    /\ is_dna = NotCalled

CallIsDnaSequence ==
    /\ is_dna = NotCalled
    /\ is_dna' = Ok(is_dna_sequence(sequence))
    /\ UNCHANGED sequence

\* ------------------------------------------------------------ HF_dataset
\* torch.tensor(x): a tensor holding x.
Tensor(x) == [tensor |-> x]

\* Mutants of PyIndex: no wrap-around of a negative index; one-based rows.
PyIndex_nowrap(list, index) ==
    IF index >= 0 /\ index < Len(list) THEN Ok(list[index + 1])
    ELSE Raise("IndexError")
PyIndex_onebased(list, index) ==
    IF index >= 1 /\ index <= Len(list) THEN Ok(list[index])
    ELSE Raise("IndexError")

\* list[index], for a list and for the first dimension of a tensor: an index
\* in -len..-1 counts from the end, one outside -len..len-1 raises IndexError.
PyIndex(list, index) ==
    IF index >= 0 /\ index < Len(list) THEN Ok(list[index + 1])
    ELSE IF index < 0 /\ index >= 0 - Len(list) THEN Ok(list[Len(list) + index + 1])
    ELSE Raise("IndexError")

\* HF_dataset.__init__
HF_dataset(ids, masks, labs) ==
    [input_ids |-> ids, attention_masks |-> masks, labels |-> labs]

\* HF_dataset.__len__
HF_len(obj) == Ok(Len(obj.labels))

\* HF_dataset.__getitem__: the three entries of the dict are evaluated in
\* order, and the first subscript that raises ends the call.
HF_getitem(obj, index) ==
    LET a == PyIndex(obj.input_ids, index)
        b == PyIndex(obj.attention_masks, index)
        c == PyIndex(obj.labels, index)
    IN  IF a.kind = "raise" THEN a
        ELSE IF b.kind = "raise" THEN b
        ELSE IF c.kind = "raise" THEN c
        ELSE Ok([input_ids |-> Tensor(a.val),
                 attention_mask |-> Tensor(b.val),
                 labels |-> Tensor(c.val)])

IdVectors   == {<<7, 9>>, <<8, 0>>}
MaskVectors == {<<1, 1>>, <<1, 0>>}
LabelValues == {0, 1}
Indices     == (0 - MaxRows - 1)..(MaxRows + 1)

NoCall == [op |-> "none", index |-> 0]

HFIdle ==
    /\ self = HF_dataset(<<>>, <<>>, <<>>)
    /\ ctor = self
    /\ hf_call = NoCall
    /\ hf_ret = NotCalled

\* The adapter as constructed; nothing checks that the three arrays align.
InitHFArgs ==
    /\ \E ids \in SeqsUpTo(IdVectors, MaxRows),
          masks \in SeqsUpTo(MaskVectors, MaxRows),
          labs \in SeqsUpTo(LabelValues, MaxRows) :
            /\ self = HF_dataset(ids, masks, labs)
            /\ ctor = [input_ids |-> ids, attention_masks |-> masks, labels |-> labs]
    /\ hf_call = NoCall
    /\ hf_ret = NotCalled

CallLen ==
    /\ hf_call' = [op |-> "len", index |-> 0]
    /\ hf_ret' = HF_len(self)
    /\ UNCHANGED <<self, ctor>>

CallGetItem ==
    \E index \in Indices :
        /\ hf_call' = [op |-> "getitem", index |-> index]
        /\ hf_ret' = HF_getitem(self, index)
        /\ UNCHANGED <<self, ctor>>

\* ------------------------------------------------------------ val_dataset_generator
\* The CSV files a directory may hold, by name.
CsvFiles == {"Class.csv", "CLASS.csv", "both.csv", "noseq.csv", "nolabel.csv",
             "norows.csv", "blank.csv"}

\* pd.read_csv(f"{val_dir}/{file}"): the columns of the file and their cells.
\* An empty SEQ cell is read as NaN (blank.csv).
read_csv(file) ==
    CASE file = "Class.csv" ->
           [columns |-> {"SEQ", "Class"},
            data |-> [SEQ |-> <<PyStr(<<"A", "T", "C", "G", "A", "T", "C", "G">>),
                                PyStr(<<"G", "G", "C", "C", "T", "T", "A", "A">>)>>,
                      Class |-> <<2, 1>>]]
      [] file = "CLASS.csv" ->
           [columns |-> {"SEQ", "CLASS"},
            data |-> [SEQ |-> <<PyStr(<<"A", "T">>), PyStr(<<"A", "C", "G", "T">>)>>,
                      CLASS |-> <<1, 3>>]]
      [] file = "both.csv" ->
           [columns |-> {"SEQ", "CLASS", "Class"},
            data |-> [SEQ |-> <<PyStr(<<"A", "C", "G">>)>>,
                      CLASS |-> <<2>>,
                      Class |-> <<1>>]]
      [] file = "noseq.csv" ->
           [columns |-> {"Class"},
            data |-> [Class |-> <<1>>]]
      [] file = "nolabel.csv" ->
           [columns |-> {"SEQ"},
            data |-> [SEQ |-> <<PyStr(<<"A", "C", "G", "T">>)>>]]
      [] file = "norows.csv" ->
           [columns |-> {"SEQ", "Class"},
            data |-> [SEQ |-> <<>>, Class |-> <<>>]]
      [] OTHER ->
           [columns |-> {"SEQ", "CLASS"},
            data |-> [SEQ |-> <<PyNaN, PyStr(<<"A", "C", "G">>)>>,
                      CLASS |-> <<1, 2>>]]

NoFrame == [columns |-> {}, data |-> <<>>]
NoEncodings == [input_ids |-> <<>>, attention_mask |-> <<>>]

\* df_test[name]: a column that is not there raises KeyError.
Column(df, name) ==
    IF name \in df.columns THEN Ok(df.data[name]) ELSE Raise("KeyError")

\* cls = "CLASS" if "CLASS" in df_test.columns else "Class"
cls(df) == IF "CLASS" \in df.columns THEN "CLASS" ELSE "Class"

\* Mutant of DecLabel: the label is stored as read.
DecLabel_asread(label) == label

\* label - 1
DecLabel(label) == label - 1

\* The tokenizer: text.split() of one k-mer string, its tokens ...
RECURSIVE Split(_, _)
Split(s, word) ==
    IF s = <<>> THEN (IF word = <<>> THEN <<>> ELSE <<word>>)
    ELSE IF Head(s) = " "
         THEN (IF word = <<>> THEN <<>> ELSE <<word>>) \o Split(Tail(s), <<>>)
         ELSE Split(Tail(s), Append(word, Head(s)))

\* ... truncated and padded to max_length, with the mask of the tokens kept.
EncodeOne(s, max_length) ==
    LET toks == Split(s, <<>>)
        n == Min(Len(toks), max_length)
    IN  [ids  |-> [i \in 1..max_length |-> IF i <= n THEN toks[i] ELSE <<"[PAD]">>],
         mask |-> [i \in 1..max_length |-> IF i <= n THEN 1 ELSE 0]]

\* tokenizer.batch_encode_plus(val_kmers, max_length=maxl_len, ...): one id
\* vector and one mask vector per string of the batch.
batch_encode_plus(batch, max_length) ==
    [input_ids |-> [i \in 1..Len(batch) |-> EncodeOne(batch[i], max_length).ids],
     attention_mask |-> [i \in 1..Len(batch) |-> EncodeOne(batch[i], max_length).mask]]

\* The directory: missing, or a listing of distinct files in the order
\* os.listdir gives them.
Listings ==
    {l \in SeqsUpTo(CsvFiles, MaxFiles) :
        \A i, j \in 1..Len(l) : i # j => l[i] # l[j]}
Dirs == {[exists |-> TRUE, listing |-> l] : l \in Listings}
          \cup {[exists |-> FALSE, listing |-> <<>>]}

\* os.listdir(val_dir)
listdir(d) == IF d.exists THEN Ok(d.listing) ELSE Raise("FileNotFoundError")

\* A generator object that has not run yet.
FreshGenerator ==
    /\ pc = "created"
    /\ files = <<>> /\ fi = 0 /\ df_test = NoFrame
    /\ val_kmers = <<>> /\ labels_val = <<>> /\ row = 0
    /\ val_encodings = NoEncodings
    /\ yielded = <<>> /\ tok_calls = <<>> /\ reads = <<>>
    /\ requests = 0 /\ resp = NotCalled

GenIdle ==
    /\ dir = [exists |-> FALSE, listing |-> <<>>]
    /\ invocation = 0 /\ kmer_size = 1
    /\ FreshGenerator

\* After the first call of val_dataset_generator(tokenizer, kmer_size, val_dir).
InitGen ==
    /\ dir \in Dirs
    /\ invocation = 1
    /\ kmer_size \in 1..MaxKmerSize
    /\ FreshGenerator

\* A further call of val_dataset_generator: a new generator object.
Invoke ==
    /\ invocation < MaxInvocations
    /\ invocation' = invocation + 1
    /\ kmer_size' \in 1..MaxKmerSize
    /\ pc' = "created"
    /\ files' = <<>> /\ fi' = 0 /\ df_test' = NoFrame
    /\ val_kmers' = <<>> /\ labels_val' = <<>> /\ row' = 0
    /\ val_encodings' = NoEncodings
    /\ yielded' = <<>> /\ tok_calls' = <<>> /\ reads' = <<>>
    /\ requests' = 0 /\ resp' = NotCalled
    /\ UNCHANGED dir

\* The directory changes between the call and the first next().  It is taken
\* not to change while a generator is between its first next() and its end.
ChangeDir ==
    /\ pc = "created"
    /\ dir' \in Dirs \ {dir}
    /\ UNCHANGED <<invocation, kmer_size, requests, resp, local_vars, log_vars>>

\* Mutant of Propagate: the error is caught and the loop goes on.
Propagate_swallow(e) == pc' = "loop" /\ resp' = resp

\* An exception leaves the generator, which is finished, and reaches the
\* caller of next(): the body has no try.
Propagate(e) == pc' = "failed" /\ resp' = Raise(e)

\* next(gen), first call: the body starts.
NextStart ==
    /\ pc = "created"
    /\ pc' = "listdir"
    /\ requests' = requests + 1
    /\ resp' = [kind |-> "running"]
    /\ UNCHANGED <<dir, invocation, kmer_size, files, fi, df_test, val_kmers,
                   labels_val, row, val_encodings, log_vars>>

\* next(gen) on a generator suspended at its yield: the loop goes on.
NextResume ==
    /\ pc = "suspended"
    /\ pc' = "loop"
    /\ requests' = requests + 1
    /\ resp' = [kind |-> "running"]
    /\ UNCHANGED <<dir, invocation, kmer_size, files, fi, df_test, val_kmers,
                   labels_val, row, val_encodings, log_vars>>

\* next(gen) on a generator that returned or raised: StopIteration.
NextExhausted ==
    /\ pc \in {"done", "failed"}
    /\ resp' = Raise("StopIteration")
    /\ UNCHANGED <<dir, invocation, kmer_size, requests, local_vars, log_vars>>

\* Line 68, os.listdir(val_dir).
ListDir ==
    /\ pc = "listdir"
    /\ LET r == listdir(dir) IN
         IF r.kind = "raise"
         THEN Propagate(r.exc) /\ UNCHANGED <<files, fi>>
         ELSE files' = r.val /\ fi' = 0 /\ pc' = "loop" /\ UNCHANGED resp
    /\ UNCHANGED <<dir, invocation, kmer_size, requests, df_test, val_kmers,
                   labels_val, row, val_encodings, log_vars>>

\* Line 68, the for statement: the next file, or the end of the body.
ForFile ==
    /\ pc = "loop"
    /\ IF fi < Len(files)
       THEN fi' = fi + 1 /\ pc' = "read" /\ UNCHANGED resp
       ELSE pc' = "done" /\ resp' = Raise("StopIteration") /\ UNCHANGED fi
    /\ UNCHANGED <<dir, invocation, kmer_size, requests, files, df_test, val_kmers,
                   labels_val, row, val_encodings, log_vars>>

\* Lines 69-75: the file is read and the accumulators start empty.
ReadCsv ==
    /\ pc = "read"
    /\ df_test' = read_csv(files[fi])
    /\ reads' = Append(reads, files[fi])
    /\ val_kmers' = <<>>
    /\ labels_val' = <<>>
    /\ pc' = "zip"
    /\ UNCHANGED <<caller_vars, files, fi, row, val_encodings, yielded, tok_calls>>

\* Line 77, zip(df_test["SEQ"], df_test[cls]): both columns are looked up.
ZipColumns ==
    /\ pc = "zip"
    /\ LET a == Column(df_test, "SEQ")
           b == Column(df_test, cls(df_test))
       IN  IF a.kind = "raise" THEN Propagate(a.exc) /\ UNCHANGED row
           ELSE IF b.kind = "raise" THEN Propagate(b.exc) /\ UNCHANGED row
           ELSE row' = 0 /\ pc' = "rows" /\ UNCHANGED resp
    /\ UNCHANGED <<dir, invocation, kmer_size, requests, files, fi, df_test,
                   val_kmers, labels_val, val_encodings, log_vars>>

\* Mutant of RowStep: a row whose k-mer string is empty is left out of
\* val_kmers.
RowStep_skipempty ==
    /\ pc = "rows"
    /\ LET seqs == df_test.data["SEQ"]
           labs == df_test.data[cls(df_test)]
       IN  IF row < Min(Len(seqs), Len(labs))
           THEN LET r == return_kmer(seqs[row + 1], kmer_size) IN
                IF r.kind = "raise"
                THEN Propagate(r.exc) /\ UNCHANGED <<val_kmers, labels_val, row>>
                ELSE /\ val_kmers' = IF r.val = <<>> THEN val_kmers
                                     ELSE Append(val_kmers, r.val)
                     /\ labels_val' = Append(labels_val, DecLabel(labs[row + 1]))
                     /\ row' = row + 1
                     /\ UNCHANGED <<pc, resp>>
           ELSE pc' = "encode" /\ UNCHANGED <<resp, val_kmers, labels_val, row>>
    /\ UNCHANGED <<dir, invocation, kmer_size, requests, files, fi, df_test,
                   val_encodings, log_vars>>

\* Lines 77-80: one row of the zip, or its end.
RowStep ==
    /\ pc = "rows"
    /\ LET seqs == df_test.data["SEQ"]
           labs == df_test.data[cls(df_test)]
       IN  IF row < Min(Len(seqs), Len(labs))
           THEN LET r == return_kmer(seqs[row + 1], kmer_size) IN
                IF r.kind = "raise"
                THEN Propagate(r.exc) /\ UNCHANGED <<val_kmers, labels_val, row>>
                ELSE /\ val_kmers' = Append(val_kmers, r.val)
                     /\ labels_val' = Append(labels_val, DecLabel(labs[row + 1]))
                     /\ row' = row + 1
                     /\ UNCHANGED <<pc, resp>>
           ELSE pc' = "encode" /\ UNCHANGED <<resp, val_kmers, labels_val, row>>
    /\ UNCHANGED <<dir, invocation, kmer_size, requests, files, fi, df_test,
                   val_encodings, log_vars>>

\* Lines 82-89: the tokenizer is called on the whole batch; it returns the
\* encodings or fails.
Encode ==
    /\ pc = "encode"
    /\ \/ /\ val_encodings' = batch_encode_plus(val_kmers, MaxlLen)
          /\ tok_calls' = Append(tok_calls, [file |-> fi, batch |-> val_kmers, ok |-> TRUE])
          /\ pc' = "wrap"
          /\ UNCHANGED resp
       \/ /\ Propagate("TokenizerError")
          /\ tok_calls' = Append(tok_calls, [file |-> fi, batch |-> val_kmers, ok |-> FALSE])
          /\ UNCHANGED val_encodings
    /\ UNCHANGED <<dir, invocation, kmer_size, requests, files, fi, df_test,
                   val_kmers, labels_val, row, yielded, reads>>

\* Mutants of Yield: the yield dedented out of the for loop; the dataset
\* handed over without the generator waiting for the next request.
Yield_afterloop ==
    /\ pc = "wrap"
    /\ LET val_dataset == HF_dataset(val_encodings.input_ids,
                                     val_encodings.attention_mask, labels_val)
       IN  IF fi < Len(files)
           THEN pc' = "loop" /\ UNCHANGED <<yielded, resp>>
           ELSE /\ yielded' = Append(yielded, val_dataset)
                /\ resp' = Ok(val_dataset)
                /\ pc' = "suspended"
    /\ UNCHANGED <<dir, invocation, kmer_size, requests, files, fi, df_test,
                   val_kmers, labels_val, row, val_encodings, tok_calls, reads>>
Yield_eager ==
    /\ pc = "wrap"
    /\ LET val_dataset == HF_dataset(val_encodings.input_ids,
                                     val_encodings.attention_mask, labels_val)
       IN  /\ yielded' = Append(yielded, val_dataset)
           /\ resp' = Ok(val_dataset)
    /\ pc' = "loop"
    /\ UNCHANGED <<dir, invocation, kmer_size, requests, files, fi, df_test,
                   val_kmers, labels_val, row, val_encodings, tok_calls, reads>>

\* Lines 90-93: the dataset is built and yielded; the generator is suspended
\* until the next next().
Yield ==
    /\ pc = "wrap"
    /\ LET val_dataset == HF_dataset(val_encodings.input_ids,
                                     val_encodings.attention_mask, labels_val)
       IN  /\ yielded' = Append(yielded, val_dataset)
           /\ resp' = Ok(val_dataset)
    /\ pc' = "suspended"
    /\ UNCHANGED <<dir, invocation, kmer_size, requests, files, fi, df_test,
                   val_kmers, labels_val, row, val_encodings, tok_calls, reads>>

\* ------------------------------------------------------------ specifications
InitKmer == InitKmerArgs /\ DnaIdle /\ HFIdle /\ GenIdle
NextKmer == CallReturnKmer /\ UNCHANGED <<dna_vars, hf_vars, gen_vars>>
SpecKmer == InitKmer /\ [][NextKmer]_vars

InitDna == InitDnaArgs /\ KmerIdle /\ HFIdle /\ GenIdle
NextDna == CallIsDnaSequence /\ UNCHANGED <<kmer_vars, hf_vars, gen_vars>>
SpecDna == InitDna /\ [][NextDna]_vars

InitHF == InitHFArgs /\ KmerIdle /\ DnaIdle /\ GenIdle
NextHF ==
    \/ CallLen /\ UNCHANGED <<kmer_vars, dna_vars, gen_vars>>
    \/ CallGetItem /\ UNCHANGED <<kmer_vars, dna_vars, gen_vars>>
SpecHF == InitHF /\ [][NextHF]_vars

Init == InitGen /\ KmerIdle /\ DnaIdle /\ HFIdle
Next ==
    \/ Invoke /\ UNCHANGED pure_vars
    \/ ChangeDir /\ UNCHANGED pure_vars
    \/ NextStart /\ UNCHANGED pure_vars
    \/ NextResume /\ UNCHANGED pure_vars
    \/ NextExhausted /\ UNCHANGED pure_vars
    \/ ListDir /\ UNCHANGED pure_vars
    \/ ForFile /\ UNCHANGED pure_vars
    \/ ReadCsv /\ UNCHANGED pure_vars
    \/ ZipColumns /\ UNCHANGED pure_vars
    \/ RowStep /\ UNCHANGED pure_vars
    \/ Encode /\ UNCHANGED pure_vars
    \/ Yield /\ UNCHANGED pure_vars
Spec == Init /\ [][Next]_vars

\* ------------------------------------------------------------ claims
\* C1: for every sequence s and every K with 1 <= K <= len(s), return_kmer(s, K)
\* is len(s) - K + 1 tokens of length K joined by single spaces, the i-th token
\* (from 0) being s[i : i + K].
C1_KmerTokens ==
    (kmer_seq # NotCalled /\ seq.type = "str" /\ K >= 1 /\ K <= Len(seq.v)) =>
        LET s == seq.v
            n == Len(s) - K + 1
        IN  /\ kmer_seq.kind = "ok"
            /\ Len(kmer_seq.val) = n * K + (n - 1)
            /\ \A i \in 0..(n - 1) :
                 /\ SubSeq(kmer_seq.val, i * (K + 1) + 1, i * (K + 1) + K)
                      = SubSeq(s, i + 1, i + K)
                 /\ i < n - 1 => kmer_seq.val[i * (K + 1) + K + 1] = " "

C1_Witness ==
    /\ seq = PyStr(<<"A", "T", "C">>) /\ K = 2
    /\ kmer_seq = Ok(<<"A", "T", " ", "T", "C">>)

\* C2: for every sequence s, the empty one included, and every K > len(s),
\* return_kmer(s, K) returns the empty string and raises nothing.
C2_ShortIsEmpty ==
    (kmer_seq # NotCalled /\ seq.type = "str" /\ K > Len(seq.v)) =>
        kmer_seq = Ok(<<>>)

C2_Witness ==
    /\ seq = PyStr(<<"A", "T">>) /\ K = 3
    /\ kmer_seq = Ok(<<>>)

\* C3: is_dna_sequence(s) is true exactly when every character of s is one of
\* A, C, G, T, a, c, g, t; the empty string is accepted.
C3_DnaIff ==
    is_dna # NotCalled =>
        /\ is_dna.kind = "ok"
        /\ is_dna.val =
             (\A i \in 1..Len(sequence) :
                 sequence[i] \in {"A", "C", "G", "T", "a", "c", "g", "t"})
        /\ sequence = <<>> => is_dna.val

C3_Witness ==
    /\ sequence = <<"a", "G">>
    /\ is_dna = Ok(TRUE)

C3_WitnessReject ==
    /\ sequence = <<"A", "u1E97">>
    /\ is_dna = Ok(FALSE)
Aligned(obj) ==
    /\ Len(obj.input_ids) = Len(obj.labels)
    /\ Len(obj.attention_masks) = Len(obj.labels)

\* The record get(index) is to return for row r (from 1) of the arrays given
\* at construction.
RowRecord(r) ==
    [input_ids |-> [tensor |-> ctor.input_ids[r]],
     attention_mask |-> [tensor |-> ctor.attention_masks[r]],
     labels |-> [tensor |-> ctor.labels[r]]]

\* C4: for an adapter built from aligned arrays and 0 <= i < length(), get(i)
\* is a record with exactly the keys input_ids, attention_mask, labels holding
\* the i-th id vector, mask vector and label given at construction; length() is
\* the number of labels given; the stored arrays stay as constructed.
C4_GetAndLength ==
    /\ self.input_ids = ctor.input_ids
    /\ self.attention_masks = ctor.attention_masks
    /\ self.labels = ctor.labels
    /\ hf_call.op = "len" => hf_ret = Ok(Len(ctor.labels))
    /\ (/\ hf_call.op = "getitem" /\ Aligned(ctor)
        /\ hf_call.index >= 0 /\ hf_call.index < Len(ctor.labels)) =>
            /\ hf_ret.kind = "ok"
            /\ DOMAIN hf_ret.val = {"input_ids", "attention_mask", "labels"}
            /\ hf_ret.val = RowRecord(hf_call.index + 1)

C4_Witness ==
    /\ ctor.input_ids = <<<<7, 9>>, <<8, 0>>>>
    /\ ctor.attention_masks = <<<<1, 1>>, <<1, 0>>>>
    /\ ctor.labels = <<1, 0>>
    /\ hf_call = [op |-> "getitem", index |-> 1]
    /\ hf_ret = Ok([input_ids |-> [tensor |-> <<8, 0>>],
                    attention_mask |-> [tensor |-> <<1, 0>>],
                    labels |-> [tensor |-> 0]])

\* C5 as stated: for an adapter of length n, get(index) with index >= n or
\* index < 0 fails with IndexError.
C5_Original ==
    (/\ hf_call.op = "getitem" /\ Aligned(ctor)
     /\ (hf_call.index >= Len(ctor.labels) \/ hf_call.index < 0)) =>
        hf_ret = Raise("IndexError")

\* C5 amended: for an adapter of length n, get(index) with index >= n or
\* index < -n fails with IndexError and returns no record; for an adapter built
\* from aligned arrays, get(index) with -n <= index < 0 returns the record of
\* row n + index.
C5_OutOfRange ==
    LET n == Len(ctor.labels) IN
    /\ (hf_call.op = "getitem" /\ (hf_call.index >= n \/ hf_call.index < 0 - n)) =>
           hf_ret = Raise("IndexError")
    /\ (/\ hf_call.op = "getitem" /\ Aligned(ctor)
        /\ hf_call.index < 0 /\ hf_call.index >= 0 - n) =>
           hf_ret = Ok(RowRecord(n + hf_call.index + 1))

C5_Witness ==
    /\ Aligned(ctor) /\ Len(ctor.labels) = 2
    /\ hf_call = [op |-> "getitem", index |-> 2]
    /\ hf_ret = Raise("IndexError")

C5_WitnessNegative ==
    /\ Aligned(ctor) /\ Len(ctor.labels) = 2
    /\ hf_call = [op |-> "getitem", index |-> 0 - 1]
    /\ hf_ret.kind = "ok"
    /\ hf_ret.val.labels = [tensor |-> ctor.labels[2]]

\* ---- val_dataset_generator
\* The generator body has listed the directory.
Listed == pc \notin {"created", "listdir"} /\ dir.exists

\* The label column of a file: "CLASS" when the file has one, else "Class".
LabelColumn(file) ==
    LET df == read_csv(file) IN
    IF "CLASS" \in df.columns THEN df.data.CLASS ELSE df.data.Class

HasLabels(file) ==
    "CLASS" \in read_csv(file).columns \/ "Class" \in read_csv(file).columns

\* The number of rows of a file.
Rows(file) ==
    LET df == read_csv(file) IN
    IF "SEQ" \in df.columns THEN Len(df.data.SEQ) ELSE Len(LabelColumn(file))

\* The k-mer strings of the rows of a file, in row order.
KmersOf(file) ==
    LET col == read_csv(file).data.SEQ IN
    [i \in 1..Len(col) |-> return_kmer(col[i], kmer_size).val]

\* The dataset built from a file none of whose steps fails.
DatasetOf(file) ==
    LET enc == batch_encode_plus(KmersOf(file), MaxlLen)
        col == LabelColumn(file)
    IN  [input_ids |-> enc.input_ids,
         attention_masks |-> enc.attention_mask,
         labels |-> [i \in 1..Len(col) |-> col[i] - 1]]

\* What an invocation has yielded so far, and what it has yielded at its end.
C6_Yielded ==
    /\ Listed => files = dir.listing
    /\ pc = "done" => Len(yielded) = Len(files)
    /\ Len(yielded) <= Len(files)
    /\ \A j \in 1..Len(yielded) : yielded[j] = DatasetOf(files[j])

\* C6: when no file fails, an invocation over a listing of n files yields
\* exactly n datasets before it ends, the j-th built from the j-th file of the
\* listing; every invocation lists the directory as it is when its body
\* starts, and yields from the first file on; the request after the
\* last dataset ends the generator.
C6_OnePerFile ==
    /\ []C6_Yielded
    /\ [][(pc = "loop" /\ Len(yielded) = Len(files) /\ invocation' = invocation) =>
             (pc' = "done" /\ resp' = Raise("StopIteration") /\ yielded' = yielded)]_vars
    /\ [][invocation' # invocation => (pc' = "created" /\ yielded' = <<>>)]_vars

C6_Witness ==
    /\ invocation = 2
    /\ pc = "done"
    /\ files = <<"CLASS.csv", "Class.csv">>
    /\ Len(yielded) = 2
    /\ yielded[1].labels = <<0, 2>>
    /\ yielded[2].labels = <<1, 0>>

C6_WitnessNoFiles ==
    /\ pc = "done" /\ dir.exists /\ files = <<>> /\ yielded = <<>>

\* C7: for a file whose label column is named "CLASS" or "Class", the labels
\* of the yielded dataset are, in row order, the source labels minus one.
C7_LabelsMinusOne ==
    \A j \in 1..Len(yielded) :
        HasLabels(files[j]) =>
            /\ Len(yielded[j].labels) = Len(LabelColumn(files[j]))
            /\ \A i \in 1..Len(LabelColumn(files[j])) :
                 yielded[j].labels[i] = LabelColumn(files[j])[i] - 1

C7_Witness ==
    /\ Len(yielded) = 1
    /\ files[1] = "Class.csv"
    /\ yielded[1].labels = <<1, 0>>

C7_WitnessUpper ==
    /\ Len(yielded) = 1
    /\ files[1] = "CLASS.csv"
    /\ yielded[1].labels = <<0, 2>>

\* C8: every yielded dataset has as many id vectors, mask vectors and labels
\* as its file has rows, also when a row's sequence is shorter than kmer_size.
C8_CountsEqualRows ==
    \A j \in 1..Len(yielded) :
        /\ Len(yielded[j].input_ids) = Rows(files[j])
        /\ Len(yielded[j].attention_masks) = Rows(files[j])
        /\ Len(yielded[j].labels) = Rows(files[j])

C8_Witness ==
    /\ kmer_size = 3
    /\ Len(yielded) = 1
    /\ files[1] = "CLASS.csv"
    /\ tok_calls[1].batch = <<<<>>, <<"A", "C", "G", " ", "C", "G", "T">>>>
    /\ Len(yielded[1].input_ids) = 2
    /\ Len(yielded[1].labels) = 2

\* A file whose processing fails whatever the tokenizer does: no "SEQ"
\* column, neither label column, or a cell of "SEQ" that is no string.
CsvFails(file) ==
    LET df == read_csv(file) IN
    \/ "SEQ" \notin df.columns
    \/ ~HasLabels(file)
    \/ \E i \in 1..Len(df.data.SEQ) : df.data.SEQ[i].type # "str"

\* The tokenizer failed on the batch of the j-th file.
TokenizerFailed(j) ==
    \E c \in 1..Len(tok_calls) : tok_calls[c].file = j /\ ~tok_calls[c].ok

\* A failing file is the last one processed, with the datasets of the files
\* before it yielded and none for it.
C9_FailedState ==
    /\ \A j \in 1..fi :
         /\ CsvFails(files[j]) =>
              (fi = j /\ Len(yielded) = j - 1 /\ pc \in {"read", "zip", "rows", "failed"})
         /\ TokenizerFailed(j) =>
              (fi = j /\ Len(yielded) = j - 1 /\ pc = "failed")
    /\ pc = "failed" =>
        /\ Len(yielded) = Max(fi - 1, 0)
        /\ \A j \in 1..Len(yielded) : yielded[j] = DatasetOf(files[j])
        /\ reads = SubSeq(files, 1, fi)
        /\ Len(tok_calls) <= fi

\* C9: when the j-th file fails, the error reaches the caller; the datasets
\* of files 1..j-1 have been yielded and nothing else is; the failed
\* generator reads no file, calls no tokenizer and yields nothing from then on.
C9_FailurePropagates ==
    /\ []C9_FailedState
    /\ [][(pc # "failed" /\ pc' = "failed") =>
             (resp'.kind = "raise" /\ resp'.exc # "StopIteration")]_vars
    /\ [][(pc = "failed" /\ invocation' = invocation) =>
             /\ pc' = "failed"
             /\ yielded' = yielded /\ reads' = reads /\ tok_calls' = tok_calls
             /\ resp'.kind = "raise"]_vars

C9_Witness ==
    /\ pc = "failed"
    /\ files = <<"Class.csv", "nolabel.csv">>
    /\ fi = 2
    /\ Len(yielded) = 1
    /\ resp = Raise("KeyError")

C9_WitnessNoSeq ==
    /\ pc = "failed" /\ files = <<"noseq.csv", "Class.csv">> /\ fi = 1
    /\ yielded = <<>> /\ resp = Raise("StopIteration")

C9_WitnessTokenizer ==
    /\ pc = "failed" /\ files = <<"Class.csv", "CLASS.csv">> /\ fi = 2
    /\ Len(yielded) = 1 /\ Len(tok_calls) = 2
    /\ resp = Raise("TokenizerError")

\* C10: for each file the tokenizer is called once, with the k-mer strings of
\* all the rows of that file in row order, before the file's dataset is
\* yielded; a file is read only after the consumer has asked for the element
\* it belongs to.
C10_OneCallPerFile ==
    /\ \A j \in 1..Len(tok_calls) :
         /\ tok_calls[j].file = j
         /\ tok_calls[j].batch = KmersOf(files[j])
    /\ Len(yielded) <= Len(tok_calls)
    /\ Len(tok_calls) <= Len(yielded) + 1
    /\ pc \in {"suspended", "done", "loop", "read", "zip", "rows", "encode"} =>
         Len(tok_calls) = Len(yielded)
    /\ pc = "wrap" => Len(tok_calls) = Len(yielded) + 1
    /\ reads = SubSeq(files, 1, Len(reads))
    /\ Len(reads) <= requests
    /\ pc = "suspended" => (Len(reads) = requests /\ Len(yielded) = requests)

C10_Witness ==
    /\ pc = "suspended"
    /\ files = <<"Class.csv", "CLASS.csv">>
    /\ requests = 2
    /\ reads = files
    /\ Len(tok_calls) = 2
    /\ Len(tok_calls[2].batch) = 2
    /\ Len(yielded) = 2
====
